---- MODULE Spec2Model ----
(***************************************************************************)
(* Model of src/nexis_biometric_collector.py: the NexisBiometricCollector  *)
(* sampling loop, its aggregator (process_and_store) and its feature       *)
(* encoder (create_cognitive_embeddings).                                  *)
(*                                                                         *)
(* Numbers.  A Python number is a record [n, d, w]: the reduced fraction   *)
(* n/d together with the precision w it is held in.  w = "exact" when n/d  *)
(* is a dyadic rational (d a power of two), which both binary64 and        *)
(* binary32 hold exactly for the magnitudes used here (|n| < 2^24);        *)
(* w = "f64" is the binary64 nearest to n/d, w = "f32" the binary32        *)
(* nearest to n/d.  For a non-dyadic n/d with a small denominator the two  *)
(* roundings are different numbers (the binary expansion is periodic, so   *)
(* bits 25..53 of the binary64 significand are not all zero).              *)
(***************************************************************************)
EXTENDS Integers, Sequences, FiniteSets, TLC

VARIABLES
    collection_active,   \* self.collection_active
    telemetry_streams,   \* self.telemetry_streams: category -> name -> sequence
    pc,                  \* position of the start_continuous_collection task
    state,               \* the Reading of the iteration in flight (local `state`)
    training_record,     \* the record _store_training_data built last
    collection_errors,   \* number of "Collection error" lines printed
    stops,               \* number of "Stopped biometric collection" lines printed
    telemetry_window,    \* argument of a direct create_cognitive_embeddings call
    embeddings,          \* value create_cognitive_embeddings returned last
    encPc                \* "call" before / "return" after the direct encoder call

vars == <<collection_active, telemetry_streams, pc, state, training_record,
          collection_errors, stops, telemetry_window, embeddings, encPc>>

(***************************************************************************)
(* Bounds of the model.                                                    *)
(***************************************************************************)
MaxWindow == 53      \* longest window handed to the encoder
MaxTime == 1         \* timestamps are hours 0..MaxTime since a Monday 00:00
MaxSeed == 0         \* states of the random generator 0..MaxSeed
MaxErrors == 2       \* exceptions injected into the loop
MaxStops == 2        \* calls of stop_collection
MaxStreamLen == 2    \* entries per stream under direct process_and_store calls

(***************************************************************************)
(* Program constants.                                                      *)
(***************************************************************************)
EMBEDDING_DIM == 768
HOURS_PER_DAY == 24
DAYS_PER_WEEK == 7

(***************************************************************************)
(* Python / numpy numbers.                                                 *)
(***************************************************************************)
RECURSIVE GCD(_, _)
GCD(a, b) == IF b = 0 THEN a ELSE GCD(b, a % b)

RECURSIVE IsPow2(_)
IsPow2(d) == d = 1 \/ (d > 1 /\ d % 2 = 0 /\ IsPow2(d \div 2))

\* The Python float (binary64) nearest to n/d, n >= 0, d > 0.
PyFloat(n, d) ==
    LET g == GCD(n, d)
        rn == n \div g
        rd == d \div g
    IN [n |-> rn, d |-> rd, w |-> IF IsPow2(rd) THEN "exact" ELSE "f64"]

\* A Python int.
PyInt(k) == [n |-> k, d |-> 1, w |-> "exact"]

\* x + y on Python numbers (binary64 addition, correctly rounded).
PyAdd(x, y) == PyFloat(x.n * y.d + y.n * x.d, x.d * y.d)

\* x / k for a float literal k (`... / 24.0`): binary64 division.
TrueDiv(x, k) == PyFloat(x.n, x.d * k)

\* The cast to numpy.float32: exact for a binary32 number, a rounding to the
\* nearest binary32 otherwise.
Float32(x) == IF x.w = "exact" THEN x ELSE [x EXCEPT !.w = "f32"]

Zero == PyInt(0)

\* np.zeros(k)
np_zeros(k) == [i \in 1..k |-> Zero]

\* dict.get(key, 0)
DictGet(dict, key) == IF key \in DOMAIN dict THEN dict[key] ELSE PyInt(0)

EmptyDict == [k \in {} |-> Zero]

(***************************************************************************)
(* BiometricState (a Reading).                                             *)
(***************************************************************************)
BiometricState(t, phys, cog, behav, env) ==
    [timestamp |-> t, physiological |-> phys, cognitive |-> cog,
     behavioral |-> behav, environmental |-> env]

\* No Reading yet: the loop has not sampled.
NoState == BiometricState(-1, EmptyDict, EmptyDict, EmptyDict, EmptyDict)

(***************************************************************************)
(* create_cognitive_embeddings                                             *)
(***************************************************************************)
phys_features(s) ==
    << DictGet(s.physiological, "heart_rate"),
       DictGet(s.physiological, "hrv_rmssd"),
       DictGet(s.physiological, "gsr"),
       DictGet(s.physiological, "temperature"),
       DictGet(s.physiological, "respiratory_rate") >>

cog_features(s) ==
    << DictGet(s.cognitive, "attention_level"),
       DictGet(s.cognitive, "cognitive_load"),
       DictGet(s.cognitive, "focus_stability"),
       DictGet(s.cognitive, "executive_function") >>

behav_features(s) ==
    << DictGet(s.behavioral, "typing_rhythm"),
       DictGet(s.behavioral, "stress_indicators") >>

env_features(s) ==
    << TrueDiv(DictGet(s.environmental, "time_of_day"), HOURS_PER_DAY),
       TrueDiv(DictGet(s.environmental, "day_of_week"), DAYS_PER_WEEK),
       DictGet(s.environmental, "ambient_light"),
       DictGet(s.environmental, "noise_level") >>

\* What one pass of the for loop hands to features.extend: first with the
\* behavioral and cognitive groups exchanged, then in the order of the code.
StateFeaturesSwapped(s) ==
    phys_features(s) \o behav_features(s) \o cog_features(s) \o env_features(s)

StateFeatures(s) ==
    phys_features(s) \o cog_features(s) \o behav_features(s) \o env_features(s)

\* The for loop from its i-th state on: what the remaining passes extend
\* features by.
RECURSIVE ExtendFrom(_, _)
ExtendFrom(window, i) ==
    IF i > Len(window) THEN <<>>
    ELSE StateFeatures(window[i]) \o ExtendFrom(window, i + 1)

\* features once every state of the window was visited.
ExtractFeatures(window) == ExtendFrom(window, 1)

\* features[:k], preceded by the slice features[-k:] that keeps the tail.
TruncateTail(features, k) ==
    IF Len(features) <= k THEN features
    ELSE SubSeq(features, Len(features) - k + 1, Len(features))

Truncate(features, k) ==
    IF Len(features) <= k THEN features ELSE SubSeq(features, 1, k)

\* if len(features) < k: features.extend([0.0] * (k - len(features))),
\* preceded by two variants: zeros put in front, and one zero too few.
PadLeft(features, k) ==
    IF Len(features) < k
    THEN [i \in 1..(k - Len(features)) |-> PyFloat(0, 1)] \o features
    ELSE features

PadShort(features, k) ==
    IF Len(features) < k
    THEN features \o [i \in 1..(k - 1 - Len(features)) |-> PyFloat(0, 1)]
    ELSE features

Pad(features, k) ==
    IF Len(features) < k
    THEN features \o [i \in 1..(k - Len(features)) |-> PyFloat(0, 1)]
    ELSE features

\* np.array(features, dtype=np.float32)
np_array_float32(features) == [i \in 1..Len(features) |-> Float32(features[i])]

create_cognitive_embeddings(window) ==
    IF Len(window) = 0
    THEN np_zeros(EMBEDDING_DIM)
    ELSE np_array_float32(
             Pad(Truncate(ExtractFeatures(window), EMBEDDING_DIM), EMBEDDING_DIM))


(***************************************************************************)
(* NexisBiometricCollector.__init__                                        *)
(***************************************************************************)
Categories ==
    {"physiological", "cognitive_state", "behavioral_patterns",
     "environmental_context"}

DeclaredMetrics(category) ==
    CASE category = "physiological" ->
           {"heart_rate_variability", "galvanic_skin_response",
            "eye_tracking_patterns", "brain_wave_states",
            "respiratory_patterns", "temperature_fluctuations"}
      [] category = "cognitive_state" ->
           {"attention_vectors", "context_switch_patterns",
            "decision_hesitation_markers", "cognitive_load_indicators",
            "hyperfocus_episodes", "executive_function_states"}
      [] category = "behavioral_patterns" ->
           {"typing_dynamics", "code_writing_patterns",
            "problem_solving_sequences", "communication_styles",
            "stress_response_patterns", "creativity_bursts"}
      [] category = "environmental_context" ->
           {"time_of_day_performance", "ambient_conditions",
            "social_interaction_modes", "task_type_preferences"}

InitialStreams ==
    [c \in Categories |-> [m \in DeclaredMetrics(c) |-> <<>>]]

(***************************************************************************)
(* collect_current_state and the simulated sensors.                        *)
(***************************************************************************)
\* Timestamps are whole hours since a Monday 00:00.
Times == 0..MaxTime

\* timestamp.hour and timestamp.weekday()
Hour(t) == t % HOURS_PER_DAY

Weekday(t) == (t \div HOURS_PER_DAY) % DAYS_PER_WEEK

\* The random generator: its k-th draw in state `seed`.
RandomDraws == << PyFloat(1, 2), PyFloat(1, 10), PyFloat(3, 4) >>

Draw(seed, k) == RandomDraws[((seed + k) % Len(RandomDraws)) + 1]

Seeds == 0..MaxSeed

\* mu + np.random.normal(0, sigma)
SimulateNormal(mu, seed, k) == PyAdd(mu, Draw(seed, k))

\* np.random.uniform(lo, hi)
SimulateUniform(seed, k) == Draw(seed, k)

\* np.random.randint(0, 5)
SimulateRandint(seed, k) == PyInt((seed + k) % 5)

\* The physiological mapping, first with the skin response under the name
\* __init__ declares, then under the names the code uses.
SampledPhysiologicalDeclared(seed) ==
    [heart_rate |-> SimulateNormal(PyInt(70), seed, 0),
     hrv_rmssd |-> SimulateNormal(PyInt(50), seed, 1),
     galvanic_skin_response |-> SimulateUniform(seed, 2),
     temperature |-> SimulateNormal(PyFloat(986, 10), seed, 3),
     respiratory_rate |-> SimulateNormal(PyInt(16), seed, 4)]

SampledPhysiological(seed) ==
    [heart_rate |-> SimulateNormal(PyInt(70), seed, 0),
     hrv_rmssd |-> SimulateNormal(PyInt(50), seed, 1),
     gsr |-> SimulateUniform(seed, 2),
     temperature |-> SimulateNormal(PyFloat(986, 10), seed, 3),
     respiratory_rate |-> SimulateNormal(PyInt(16), seed, 4)]

SampledCognitive(seed) ==
    [attention_level |-> SimulateUniform(seed, 5),
     cognitive_load |-> SimulateUniform(seed, 6),
     focus_stability |-> SimulateUniform(seed, 7),
     executive_function |-> SimulateUniform(seed, 8)]

SampledBehavioral(seed) ==
    [typing_rhythm |-> SimulateUniform(seed, 9),
     mouse_dynamics |-> SimulateUniform(seed, 10),
     task_switching |-> SimulateRandint(seed, 11),
     stress_indicators |-> SimulateUniform(seed, 12)]

SampledEnvironmental(t, seed) ==
    [time_of_day |-> PyInt(Hour(t)),
     day_of_week |-> PyInt(Weekday(t)),
     ambient_light |-> SimulateUniform(seed, 13),
     noise_level |-> SimulateUniform(seed, 14)]

collect_current_state(t, seed) ==
    BiometricState(t, SampledPhysiological(seed), SampledCognitive(seed),
                   SampledBehavioral(seed), SampledEnvironmental(t, seed))

(***************************************************************************)
(* process_and_store, _get_recent_states, _store_training_data             *)
(***************************************************************************)
\* stream.append({'timestamp': ts, 'value': value}), preceded by the variant
\* that inserts the entry at the front.
WithEntryPrepended(stream, ts, value) ==
    <<[timestamp |-> ts, value |-> value]>> \o stream

WithEntry(stream, ts, value) ==
    Append(stream, [timestamp |-> ts, value |-> value])

\* if key in self.telemetry_streams[category]: ...append(entry), on the
\* streams of that category.
StoreItem(declared, key, ts, value) ==
    IF key \in DOMAIN declared
    THEN [declared EXCEPT ![key] = WithEntry(@, ts, value)]
    ELSE declared

\* The inner for loop over data.items(), `keys` being the items still to visit.
RECURSIVE StoreItems(_, _, _, _, _)
StoreItems(streams, category, data, keys, ts) ==
    IF keys = {} THEN streams
    ELSE LET key == CHOOSE k \in keys : TRUE
         IN StoreItems(
                [streams EXCEPT ![category] = StoreItem(@, key, ts, data[key])],
                category, data, keys \ {key}, ts)

\* The list of (category, data) pairs the outer for loop visits.
CategoryPairs(s) ==
    << <<"physiological", s.physiological>>,
       <<"cognitive_state", s.cognitive>>,
       <<"behavioral_patterns", s.behavioral>>,
       <<"environmental_context", s.environmental>> >>

\* The outer for loop from its i-th pair on.
RECURSIVE StoreCategories(_, _, _)
StoreCategories(streams, s, i) ==
    IF i > Len(CategoryPairs(s)) THEN streams
    ELSE LET pair == CategoryPairs(s)[i]
         IN StoreCategories(
                StoreItems(streams, pair[1], pair[2], DOMAIN pair[2], s.timestamp),
                s, i + 1)

\* _get_recent_states: `return []`, preceded by a selector that returns the
\* Reading in flight.
RecentFromState(window_minutes) == IF state = NoState THEN <<>> ELSE <<state>>

get_recent_states(window_minutes) == <<>>

WINDOW_MINUTES == 5

\* timestamp.isoformat(): the date and the hour of the time stamp.
IsoFormat(t) == [day |-> t \div HOURS_PER_DAY, hour |-> t % HOURS_PER_DAY]

\* embeddings.tolist(): binary32 to Python float, which is exact.
ToList(array) == array

\* training_record of _store_training_data
TrainingRecord(s, emb) ==
    [timestamp |-> IsoFormat(s.timestamp),
     cognitive_embedding |-> ToList(emb),
     raw_state |-> [physiological |-> s.physiological,
                    cognitive |-> s.cognitive,
                    behavioral |-> s.behavioral,
                    environmental |-> s.environmental]]

NoRecord == TrainingRecord(NoState, <<>>)

\* The whole of process_and_store(s).
process_and_store(s) ==
    /\ telemetry_streams' = StoreCategories(telemetry_streams, s, 1)
    /\ telemetry_window' = get_recent_states(WINDOW_MINUTES)
    /\ embeddings' = create_cognitive_embeddings(telemetry_window')
    /\ training_record' = TrainingRecord(s, embeddings')

(***************************************************************************)
(* The collector as __init__ leaves it: no task started, nothing encoded.  *)
(***************************************************************************)
Init ==
    /\ telemetry_streams = InitialStreams
    /\ collection_active = FALSE
    /\ pc = "idle"
    /\ state = NoState
    /\ training_record = NoRecord
    /\ collection_errors = 0
    /\ stops = 0
    /\ embeddings = <<>>
    /\ telemetry_window = <<>>
    /\ encPc = "call"

(***************************************************************************)
(* start_continuous_collection: one task, pc its position.                 *)
(*   idle        created or scheduled, first statement not yet executed    *)
(*   check       at `while self.collection_active`                         *)
(*   collect     about to await collect_current_state()                    *)
(*   process     about to await process_and_store(state)                   *)
(*   sleep       in asyncio.sleep(1.0 / self.sample_rate)                  *)
(*   error_sleep in the handler's asyncio.sleep(1.0)                       *)
(*   done        returned                                                  *)
(*   interrupted left by KeyboardInterrupt                                 *)
(***************************************************************************)
Running == {"check", "collect", "process", "sleep", "error_sleep"}

\* Entering the coroutine, first without touching the flag, then as the code
\* does: self.collection_active = True; print(...)
StartLeavesFlag ==
    /\ pc = "idle"
    /\ pc' = "check"
    /\ UNCHANGED <<collection_active, telemetry_streams, state, training_record,
                   collection_errors, stops, telemetry_window, embeddings, encPc>>

Start ==
    /\ pc = "idle"
    /\ collection_active' = TRUE
    /\ pc' = "check"
    /\ UNCHANGED <<telemetry_streams, state, training_record, collection_errors,
                   stops, telemetry_window, embeddings, encPc>>

\* Where the while test leads: first for `while True`, then for
\* `while self.collection_active`.
WhileTrueTarget == "collect"

WhileTarget == IF collection_active THEN "collect" ELSE "done"

\* while self.collection_active:
LoopCheck ==
    /\ pc = "check"
    /\ pc' = WhileTarget
    /\ UNCHANGED <<collection_active, telemetry_streams, state, training_record,
                   collection_errors, stops, telemetry_window, embeddings, encPc>>

\* state = await self.collect_current_state()
Collect ==
    /\ pc = "collect"
    /\ \E t \in Times, seed \in Seeds : state' = collect_current_state(t, seed)
    /\ pc' = "process"
    /\ UNCHANGED <<collection_active, telemetry_streams, training_record,
                   collection_errors, stops, telemetry_window, embeddings, encPc>>

\* await self.process_and_store(state)
Process ==
    /\ pc = "process"
    /\ process_and_store(state)
    /\ pc' = "sleep"
    /\ UNCHANGED <<collection_active, state, collection_errors, stops, encPc>>

\* await asyncio.sleep(1.0 / self.sample_rate) returns
Sleep ==
    /\ pc = "sleep"
    /\ pc' = "check"
    /\ UNCHANGED <<collection_active, telemetry_streams, state, training_record,
                   collection_errors, stops, telemetry_window, embeddings, encPc>>

\* An exception of one iteration: first leaving the loop unhandled, then
\* handled as the code does (CatchException).
ExceptionEscapes ==
    /\ collection_errors < MaxErrors
    /\ collection_errors' = collection_errors + 1
    /\ pc' = "done"
    /\ UNCHANGED <<collection_active, state, stops, encPc>>

\* except Exception as e: print(f"Collection error: {e}"), on to the sleep
CatchException ==
    /\ collection_errors < MaxErrors
    /\ collection_errors' = collection_errors + 1
    /\ pc' = "error_sleep"
    /\ UNCHANGED <<collection_active, state, stops, encPc>>

\* collect_current_state raises
RaiseInCollect ==
    /\ pc = "collect"
    /\ CatchException
    /\ UNCHANGED <<telemetry_streams, training_record, telemetry_window, embeddings>>

\* process_and_store raises before it stored anything
RaiseInAggregate ==
    /\ pc = "process"
    /\ CatchException
    /\ UNCHANGED <<telemetry_streams, training_record, telemetry_window, embeddings>>

\* _store_training_data raises: the streams and the embedding are done
RaiseInPersist ==
    /\ pc = "process"
    /\ telemetry_streams' = StoreCategories(telemetry_streams, state, 1)
    /\ telemetry_window' = get_recent_states(WINDOW_MINUTES)
    /\ embeddings' = create_cognitive_embeddings(telemetry_window')
    /\ CatchException
    /\ UNCHANGED training_record

\* the inter-sample sleep raises (1.0 / self.sample_rate with a rate of 0)
RaiseInSleep ==
    /\ pc = "sleep"
    /\ CatchException
    /\ UNCHANGED <<telemetry_streams, training_record, telemetry_window, embeddings>>

\* await asyncio.sleep(1.0) of the handler returns
ErrorSleep ==
    /\ pc = "error_sleep"
    /\ pc' = "check"
    /\ UNCHANGED <<collection_active, telemetry_streams, state, training_record,
                   collection_errors, stops, telemetry_window, embeddings, encPc>>

\* The steps of the loop task.
LoopStep ==
    \/ LoopCheck
    \/ Collect
    \/ Process
    \/ Sleep
    \/ ErrorSleep
    \/ RaiseInCollect
    \/ RaiseInAggregate
    \/ RaiseInPersist
    \/ RaiseInSleep

\* stop_collection(), called by whoever holds the collector.  Another task
\* of the event loop can run only while the loop task is suspended (idle,
\* sleep, error_sleep, done); a thread can call it at any position, and no
\* lock prevents that, so every position is allowed here.
StopCollection ==
    /\ stops < MaxStops
    /\ collection_active' = FALSE
    /\ stops' = stops + 1
    /\ UNCHANGED <<telemetry_streams, pc, state, training_record,
                   collection_errors, telemetry_window, embeddings, encPc>>

\* KeyboardInterrupt ends asyncio.run; the handler calls stop_collection().
Interrupt ==
    /\ pc \in Running
    /\ stops < MaxStops
    /\ pc' = "interrupted"
    /\ collection_active' = FALSE
    /\ stops' = stops + 1
    /\ UNCHANGED <<telemetry_streams, state, training_record,
                   collection_errors, telemetry_window, embeddings, encPc>>

Next ==
    \/ Start
    \/ LoopCheck
    \/ Collect
    \/ Process
    \/ Sleep
    \/ ErrorSleep
    \/ RaiseInCollect
    \/ RaiseInAggregate
    \/ RaiseInPersist
    \/ RaiseInSleep
    \/ StopCollection
    \/ Interrupt

Spec == Init /\ [][Next]_vars

\* The event loop keeps running the task: a step of the loop that stays
\* possible is taken.
SpecLive == Spec /\ WF_vars(LoopStep)

(***************************************************************************)
(* Inputs of a direct call of create_cognitive_embeddings.                 *)
(***************************************************************************)
\* A Reading with every field the sampler produces; gsr, noise_level and the
\* two normalised fields are not binary32 numbers.
FullReading ==
    BiometricState(0,
        [heart_rate |-> PyInt(70), hrv_rmssd |-> PyInt(50),
         gsr |-> PyFloat(1, 10), temperature |-> PyFloat(197, 2),
         respiratory_rate |-> PyInt(16)],
        [attention_level |-> PyFloat(1, 2), cognitive_load |-> PyFloat(1, 4),
         focus_stability |-> PyFloat(3, 4),
         executive_function |-> PyFloat(1, 8)],
        [typing_rhythm |-> PyFloat(3, 8), mouse_dynamics |-> PyFloat(5, 8),
         task_switching |-> PyInt(3), stress_indicators |-> PyFloat(7, 8)],
        [time_of_day |-> PyInt(13), day_of_week |-> PyInt(3),
         ambient_light |-> PyFloat(1, 16), noise_level |-> PyFloat(1, 5)])

\* A Reading that lacks fields in every category.
PartialReading ==
    BiometricState(1,
        [heart_rate |-> PyInt(71), gsr |-> PyFloat(3, 10),
         respiratory_rate |-> PyInt(17)],
        EmptyDict,
        [mouse_dynamics |-> PyFloat(1, 8), task_switching |-> PyInt(4)],
        [day_of_week |-> PyInt(6), noise_level |-> PyFloat(3, 16)])

\* A Reading all of whose encoded values are binary32 numbers.
DyadicReading ==
    BiometricState(1,
        [heart_rate |-> PyInt(72), hrv_rmssd |-> PyInt(51),
         gsr |-> PyFloat(5, 4), temperature |-> PyInt(98),
         respiratory_rate |-> PyInt(18)],
        [attention_level |-> PyFloat(1, 16), cognitive_load |-> PyFloat(3, 16),
         focus_stability |-> PyFloat(5, 16),
         executive_function |-> PyFloat(7, 16)],
        [typing_rhythm |-> PyFloat(9, 16), mouse_dynamics |-> PyFloat(11, 16),
         task_switching |-> PyInt(1), stress_indicators |-> PyFloat(13, 16)],
        [time_of_day |-> PyInt(6), day_of_week |-> PyInt(0),
         ambient_light |-> PyFloat(15, 16), noise_level |-> PyFloat(1, 32)])

\* A Reading whose four mappings are all empty.
EmptyReading == BiometricState(0, EmptyDict, EmptyDict, EmptyDict, EmptyDict)

EncReadings == {FullReading, PartialReading, DyadicReading, EmptyReading}

\* n Readings `a`, the k-th replaced by `b`.
WindowOf(n, a, b, k) == [i \in 1..n |-> IF i = k THEN b ELSE a]

\* Every length 0..MaxWindow; the odd Reading first, last or last but one, so
\* that it stands at every position 1..MaxWindow of some window.
Windows ==
    {<<>>} \cup
    UNION {{WindowOf(n, a, b, k) :
                a \in EncReadings, b \in EncReadings, k \in {1, n - 1, n} \cap 1..n}
           : n \in 1..MaxWindow}

InitEnc ==
    /\ telemetry_streams = InitialStreams
    /\ collection_active = FALSE
    /\ pc = "idle"
    /\ state = NoState
    /\ training_record = NoRecord
    /\ collection_errors = 0
    /\ stops = 0
    /\ embeddings = <<>>
    /\ telemetry_window \in Windows
    /\ encPc = "call"

\* embeddings = collector.create_cognitive_embeddings(telemetry_window)
EncodeWindow ==
    /\ encPc = "call"
    /\ embeddings' = create_cognitive_embeddings(telemetry_window)
    /\ encPc' = "return"
    /\ UNCHANGED <<collection_active, telemetry_streams, pc, state,
                   training_record, collection_errors, stops, telemetry_window>>

NextEnc == EncodeWindow

SpecEnc == InitEnc /\ [][NextEnc]_vars


(***************************************************************************)
(* Direct calls of process_and_store with Readings of any shape.           *)
(***************************************************************************)
StorePhysiological ==
    { SampledPhysiological(0),
      [galvanic_skin_response |-> PyFloat(1, 4), gsr |-> PyFloat(1, 2),
       typing_dynamics |-> PyInt(9)] }

StoreCognitive ==
    { EmptyDict,
      [attention_vectors |-> PyFloat(3, 4), hyperfocus_episodes |-> PyInt(2),
       attention_level |-> PyFloat(1, 8)] }

StoreBehavioral ==
    { SampledBehavioral(0),
      [typing_dynamics |-> PyFloat(5, 8), heart_rate_variability |-> PyInt(7)] }

StoreEnvironmental ==
    { [ambient_conditions |-> PyFloat(1, 16), time_of_day |-> PyInt(13)] }

StoreReadings ==
    { BiometricState(t, phys, cog, behav, env) :
        t \in Times, phys \in StorePhysiological, cog \in StoreCognitive,
        behav \in StoreBehavioral, env \in StoreEnvironmental }

\* await collector.process_and_store(reading), no loop task running
CallProcessAndStore ==
    /\ pc = "idle"
    /\ \A c \in Categories : \A m \in DeclaredMetrics(c) :
           Len(telemetry_streams[c][m]) < MaxStreamLen
    /\ \E reading \in StoreReadings :
           /\ state' = reading
           /\ process_and_store(reading)
    /\ UNCHANGED <<collection_active, pc, collection_errors, stops, encPc>>

NextStore == CallProcessAndStore

SpecStore == Init /\ [][NextStore]_vars


(***************************************************************************)
(* Properties of create_cognitive_embeddings (under SpecEnc).              *)
(***************************************************************************)
\* The fields a Reading is said to contribute, in order: the mapping, the
\* field and the constant the value is divided by (1: not divided).
ClaimedFields ==
    << <<"physiological", "heart_rate", 1>>,
       <<"physiological", "hrv_rmssd", 1>>,
       <<"physiological", "gsr", 1>>,
       <<"physiological", "temperature", 1>>,
       <<"physiological", "respiratory_rate", 1>>,
       <<"cognitive", "attention_level", 1>>,
       <<"cognitive", "cognitive_load", 1>>,
       <<"cognitive", "focus_stability", 1>>,
       <<"cognitive", "executive_function", 1>>,
       <<"behavioral", "typing_rhythm", 1>>,
       <<"behavioral", "stress_indicators", 1>>,
       <<"environmental", "time_of_day", 24>>,
       <<"environmental", "day_of_week", 7>>,
       <<"environmental", "ambient_light", 1>>,
       <<"environmental", "noise_level", 1>> >>

PerReading == Len(ClaimedFields)

\* The j-th value Reading s is said to contribute: 0 for a missing field.
ClaimedValue(s, j) ==
    LET f == ClaimedFields[j]
        dict == s[f[1]]
        v == IF f[2] \in DOMAIN dict THEN dict[f[2]] ELSE Zero
    IN IF f[3] = 1 THEN v ELSE PyFloat(v.n, v.d * f[3])

\* The number of raw values of a window and its i-th raw value (from 1).
RawCount(window) == PerReading * Len(window)

RawValue(window, i) ==
    ClaimedValue(window[((i - 1) \div PerReading) + 1], ((i - 1) % PerReading) + 1)

\* The binary32 nearest to a raw value.
Rounded(v) == IF IsPow2(v.d) THEN v ELSE [n |-> v.n, d |-> v.d, w |-> "f32"]

Returned == encPc = "return"

\* C1: create_cognitive_embeddings returns a vector of exactly 768 entries
\* for every window, whatever its length and whatever fields its Readings
\* contain or lack.
C1_LengthAlways768 ==
    Returned => DOMAIN embeddings = 1..768

C1_Witness ==
    /\ Returned
    /\ Len(telemetry_window) = 52
    /\ telemetry_window[52] = PartialReading
    /\ Len(embeddings) = 768

\* C2 as stated: a window with more than 768 raw values yields exactly the
\* first 768 raw values, in window order.
C2_FirstRawValuesUnchanged ==
    (Returned /\ RawCount(telemetry_window) > 768) =>
        \A i \in 1..768 : embeddings[i] = RawValue(telemetry_window, i)

\* C2 amended: a window with more than 768 raw values (52 or more Readings)
\* yields the first 768 raw values in window order, each converted to
\* float32; the cut falls after the first 3 values of the 52nd Reading and
\* later Readings contribute nothing.
C2_TruncatesToFirst768 ==
    (Returned /\ RawCount(telemetry_window) > 768) =>
        /\ Len(telemetry_window) >= 52
        /\ DOMAIN embeddings = 1..768
        /\ \A i \in 1..768 :
               embeddings[i] = Rounded(RawValue(telemetry_window, i))
        /\ \A j \in 1..3 :
               embeddings[765 + j] = Rounded(ClaimedValue(telemetry_window[52], j))
        /\ embeddings = create_cognitive_embeddings(SubSeq(telemetry_window, 1, 52))

C2_Witness ==
    /\ Returned
    /\ Len(telemetry_window) = 53
    /\ telemetry_window[52] = FullReading
    /\ telemetry_window[53] = DyadicReading
    /\ embeddings[768] = [n |-> 1, d |-> 10, w |-> "f32"]

\* C3 as stated: a window with R < 768 raw values yields the raw values
\* unchanged in entries 0..R-1 and exact zeros in entries R..767.
C3_RawValuesUnchangedThenZeros ==
    (Returned /\ RawCount(telemetry_window) < 768) =>
        /\ \A i \in 1..RawCount(telemetry_window) :
               embeddings[i] = RawValue(telemetry_window, i)
        /\ \A i \in (RawCount(telemetry_window) + 1)..768 : embeddings[i] = Zero

\* C3 amended: a window with R < 768 raw values yields, in entries 0..R-1,
\* the raw values converted to float32 and, in entries R..767, exact zeros;
\* the empty window yields 768 zeros.
C3_PadsWithZeros ==
    (Returned /\ RawCount(telemetry_window) < 768) =>
        /\ DOMAIN embeddings = 1..768
        /\ \A i \in 1..RawCount(telemetry_window) :
               embeddings[i] = Rounded(RawValue(telemetry_window, i))
        /\ \A i \in (RawCount(telemetry_window) + 1)..768 : embeddings[i] = Zero

C3_Witness ==
    /\ Returned
    /\ Len(telemetry_window) = 51
    /\ telemetry_window[51] = FullReading
    /\ embeddings[765] = [n |-> 1, d |-> 5, w |-> "f32"]
    /\ embeddings[766] = Zero

\* A Reading without the two behavioral fields that are not encoded.
WithoutUnencoded(s) ==
    [s EXCEPT !.behavioral =
        [k \in DOMAIN s.behavioral \ {"mouse_dynamics", "task_switching"} |->
            s.behavioral[k]]]

\* C4: each Reading contributes exactly 15 values to the concatenation, in
\* the order heart_rate, hrv_rmssd, gsr, temperature, respiratory_rate,
\* attention_level, cognitive_load, focus_stability, executive_function,
\* typing_rhythm, stress_indicators, time_of_day/24, day_of_week/7,
\* ambient_light, noise_level; a missing field contributes 0 in its place,
\* and mouse_dynamics and task_switching are never encoded.
C4_FifteenFieldsInOrder ==
    Returned =>
        LET features == ExtractFeatures(telemetry_window)
        IN /\ Len(features) = 15 * Len(telemetry_window)
           /\ \A r \in 1..Len(telemetry_window) : \A j \in 1..15 :
                  features[15 * (r - 1) + j] = ClaimedValue(telemetry_window[r], j)
           /\ embeddings =
                  create_cognitive_embeddings(
                      [r \in 1..Len(telemetry_window) |->
                          WithoutUnencoded(telemetry_window[r])])

C4_Witness ==
    /\ Returned
    /\ Len(telemetry_window) = 2
    /\ telemetry_window[1] = PartialReading
    /\ telemetry_window[2] = FullReading
    /\ embeddings[2] = Zero
    /\ embeddings[13] = [n |-> 6, d |-> 7, w |-> "f32"]
    /\ embeddings[15 + 12] = [n |-> 13, d |-> 24, w |-> "f32"]


(***************************************************************************)
(* Properties of process_and_store (under SpecStore).                      *)
(***************************************************************************)
\* The mapping of Reading s that is stored under category c.
ReadingData(s, c) ==
    CASE c = "physiological" -> s.physiological
      [] c = "cognitive_state" -> s.cognitive
      [] c = "behavioral_patterns" -> s.behavioral
      [] c = "environmental_context" -> s.environmental

\* C5: process_and_store, given any Reading, appends one (timestamp, value)
\* entry with the Reading's timestamp to the end of
\* telemetry_streams[category][name] for every metric name of the Reading
\* that the category declares, appends nothing for any other name, and keeps
\* the earlier entries of every sequence as a prefix (arrival order).
C5_AppendsDeclaredOnly ==
    [][\A c \in Categories :
          /\ DOMAIN telemetry_streams'[c] = DeclaredMetrics(c)
          /\ \A m \in DeclaredMetrics(c) :
                telemetry_streams'[c][m] =
                    IF m \in DOMAIN ReadingData(state', c)
                    THEN Append(telemetry_streams[c][m],
                                [timestamp |-> state'.timestamp,
                                 value |-> ReadingData(state', c)[m]])
                    ELSE telemetry_streams[c][m]]_vars

C5_Witness ==
    /\ "gsr" \in DOMAIN state.physiological
    /\ "typing_dynamics" \in DOMAIN state.physiological
    /\ state.timestamp = 1
    /\ Len(telemetry_streams["physiological"]["galvanic_skin_response"]) = 2
    /\ telemetry_streams["physiological"]["galvanic_skin_response"][1].timestamp = 0
    /\ telemetry_streams["physiological"]["galvanic_skin_response"][2] =
           [timestamp |-> 1, value |-> PyFloat(1, 4)]
    /\ Len(telemetry_streams["behavioral_patterns"]["typing_dynamics"]) = 0

(***************************************************************************)
(* Properties of the collection loop (under Spec and SpecLive).            *)
(***************************************************************************)
\* C6: an exception raised by the sample, aggregate/encode, persist or
\* inter-sample sleep step is caught at the loop boundary: the loop does not
\* exit and collection_active is left as it is, the one-second wait replaces
\* the normal interval, the next iteration starts afresh at the sample step,
\* and no number of errors makes the loop return.
C6_ErrorsNeverEndTheLoop ==
    /\ [][collection_errors' # collection_errors =>
            /\ pc \in {"collect", "process", "sleep"}
            /\ pc' = "error_sleep"
            /\ collection_active' = collection_active]_vars
    /\ [][(pc = "error_sleep" /\ pc' # pc) => pc' \in {"check", "interrupted"}]_vars
    /\ [][(pc = "check" /\ collection_active /\ pc' # pc) =>
            pc' \in {"collect", "interrupted"}]_vars
    /\ [](pc = "done" => ~collection_active)

C6_Witness ==
    /\ collection_errors = 2
    /\ collection_active
    /\ pc = "process"
    /\ training_record = NoRecord

\* C7: cancellation is cooperative.  The loop returns only from the test at
\* the top of an iteration, having read collection_active as False; after
\* stop_collection() an iteration in flight runs on to its end, its sleep
\* included, no further iteration begins and the loop eventually returns
\* (or is interrupted); it never returns while the flag is True.
C7_CooperativeCancellation ==
    /\ [][(pc # "done" /\ pc' = "done") => (pc = "check" /\ ~collection_active)]_vars
    /\ [][(~collection_active /\ pc' # pc) =>
            /\ pc = "collect" => pc' \in {"process", "error_sleep", "interrupted"}
            /\ pc = "process" => pc' \in {"sleep", "error_sleep", "interrupted"}
            /\ pc = "sleep" => pc' \in {"check", "error_sleep", "interrupted"}
            /\ pc = "check" => pc' \in {"done", "interrupted"}]_vars
    /\ (pc \in Running /\ ~collection_active) ~> (pc \in {"done", "interrupted"})
    /\ [](pc = "done" => ~collection_active)

C7_Witness ==
    /\ pc = "done"
    /\ stops = 1
    /\ training_record # NoRecord
    /\ state # training_record.raw_state

\* C8: in every iteration the recent-window selector returns the empty
\* window, however many Readings were processed, so the embedding handed to
\* _store_training_data is the 768-entry all-zero vector.
C8_EmbeddingAlwaysZero ==
    /\ telemetry_window = <<>>
    /\ training_record # NoRecord =>
           /\ DOMAIN training_record.cognitive_embedding = 1..768
           /\ \A i \in 1..768 : training_record.cognitive_embedding[i] = Zero

C8_Witness ==
    /\ pc = "sleep"
    /\ training_record # NoRecord
    /\ training_record.raw_state.environmental.time_of_day = PyInt(1)
    /\ training_record.cognitive_embedding[12] = Zero
    /\ collection_errors = 1

\* C9: with Readings from collect_current_state every sequence of
\* telemetry_streams stays empty: no sampled metric name is a declared name
\* of its category.
C9_StreamsStayEmpty ==
    \A c \in Categories : \A m \in DeclaredMetrics(c) :
        telemetry_streams[c][m] = <<>>

C9_Witness ==
    /\ pc = "process"
    /\ training_record # NoRecord
    /\ state.timestamp # training_record.timestamp.hour
    /\ \A c \in Categories : \A m \in DeclaredMetrics(c) :
           Len(telemetry_streams[c][m]) = 0

\* C10: a stop request made before the loop started is lost.  Entering
\* start_continuous_collection sets collection_active whatever happened
\* before; from then on only a call of stop_collection clears the flag, and
\* the loop returns only once it is cleared.
C10_EarlyStopIsLost ==
    /\ [][(pc = "idle" /\ pc' # "idle") => (pc' = "check" /\ collection_active')]_vars
    /\ [][(collection_active /\ ~collection_active') => stops' = stops + 1]_vars
    /\ [][(pc # "done" /\ pc' = "done") => ~collection_active]_vars

C10_Witness ==
    /\ stops = 1
    /\ collection_active
    /\ pc = "sleep"
    /\ training_record # NoRecord

====
